---- MODULE Spec2Model ----
(***************************************************************************)
(* Model of the shell emulator of src/emulator.py: a command interpreter   *)
(* over the member list of a tar archive.                                  *)
(*                                                                         *)
(* Strings that the code slices, splits or compares by prefix (paths and   *)
(* member names) are sequences of one-character strings; file contents are *)
(* sequences of bytes, each byte one of the tokens of Bytes.  Command      *)
(* names, owners and message templates are never taken apart by the code   *)
(* and stay TLA+ strings.                                                  *)
(***************************************************************************)
EXTENDS Integers, Sequences, FiniteSets, TLC

VARIABLES
    members,       \* self.members: the archive's entries, in archive order
    current_dir,   \* self.current_dir
    phase,         \* "Startup" (run_startup_script), "Interactive" (shell_loop), "Terminated"
    script_found,  \* whether open(self.script_path) succeeds
    log_closed,    \* self.log_file.closed
    tar_closed,    \* self.tar.closed
    exit_status,   \* argument of sys.exit, -1 while the process runs
    pc,            \* "read": the loop is about to read a line; "done": execute_command returned
    command,       \* args[0] of the line just dispatched ("" for none or a blank line)
    operands,      \* args[1:] of the line just dispatched
    prev_dir,      \* current_dir when the line just dispatched was read
    prev_members,  \* members when the line just dispatched was read
    out,           \* what the line just dispatched printed
    entered,       \* the last dispatched line was a cd into a child: from where, which child
    before,        \* entered, as it was when the line just dispatched was read
    log,           \* the rows written to the log file, the header row first
    follow_log,    \* whether the session keeps the rows of the log file in log
    command_line,  \* the line last read by run_startup_script or by shell_loop
    prev_log,      \* log when the line just dispatched was read
    prev_phase     \* phase when the line just dispatched was read

vars == <<members, current_dir, phase, script_found, log_closed, tar_closed, exit_status,
          pc, command, operands, prev_dir, prev_members, out, entered, before,
          log, follow_log, command_line, prev_log, prev_phase>>

---------------------------------------------------------------------------
(* Bounds of the model *)

\* longest cd operand, in '/'-separated segments
MaxSegs == 3
\* longest head / wc / chown file operand, in '/'-separated segments
MaxFileSegs == 1
\* most lines dispatched in a session that keeps the rows of the log file
MaxLog == 3

---------------------------------------------------------------------------
(* Python string primitives used by the code *)

\* s.startswith(p)
StartsWith(s, p) == Len(s) >= Len(p) /\ SubSeq(s, 1, Len(p)) = p

\* s.endswith(p)
EndsWith(s, p) == Len(s) >= Len(p) /\ SubSeq(s, Len(s) - Len(p) + 1, Len(s)) = p

\* s[n:]
From(s, n) == SubSeq(s, n + 1, Len(s))

\* s.lstrip('/')
RECURSIVE LStrip(_)
LStrip(s) == IF s # <<>> /\ Head(s) = "/" THEN LStrip(Tail(s)) ELSE s

\* s.rstrip('/')
RECURSIVE RStripSlash(_)
RStripSlash(s) ==
    IF s # <<>> /\ s[Len(s)] = "/" THEN RStripSlash(SubSeq(s, 1, Len(s) - 1)) ELSE s

\* s.strip('/')
Strip(s) == RStripSlash(LStrip(s))

\* s.split('/'): always at least one segment, empty segments kept
RECURSIVE Split(_)
Split(s) ==
    IF \A i \in 1..Len(s) : s[i] # "/"
    THEN <<s>>
    ELSE LET i == CHOOSE k \in 1..Len(s) : s[k] = "/" /\ \A j \in 1..(k - 1) : s[j] # "/"
         IN  <<SubSeq(s, 1, i - 1)>> \o Split(From(s, i))

\* '/'.join(comps)
RECURSIVE Join(_)
Join(comps) ==
    IF comps = <<>> THEN <<>>
    ELSE IF Len(comps) = 1 THEN comps[1]
    ELSE comps[1] \o <<"/">> \o Join(Tail(comps))

\* code point of a character, the order sorted() compares strings by
CharOrd(c) ==
    CASE c = "." -> 46
      [] c = "/" -> 47
      [] c = "a" -> 97
      [] c = "b" -> 98
      [] c = "e" -> 101
      [] c = "f" -> 102
      [] OTHER   -> 255

\* s < t for Python strings
RECURSIVE StrLess(_, _)
StrLess(s, t) ==
    IF t = <<>> THEN FALSE
    ELSE IF s = <<>> THEN TRUE
    ELSE IF Head(s) = Head(t) THEN StrLess(Tail(s), Tail(t))
    ELSE CharOrd(Head(s)) < CharOrd(Head(t))

\* sorted(S) for a set of strings
RECURSIVE Sorted(_)
Sorted(S) ==
    IF S = {} THEN <<>>
    ELSE LET m == CHOOSE x \in S : \A y \in S \ {x} : StrLess(x, y)
         IN  <<m>> \o Sorted(S \ {m})

---------------------------------------------------------------------------
(* os.path.join and os.path.normpath (posixpath), as called by cd, head,   *)
(* wc and chown                                                            *)

\* os.path.join(a, b)
PathJoin(a, b) ==
    IF StartsWith(b, <<"/">>) THEN b
    ELSE IF a = <<>> \/ EndsWith(a, <<"/">>) THEN a \o b
    ELSE a \o <<"/">> \o b

\* the component loop of normpath: comps still to read, new_comps built so far
RECURSIVE NormComps(_, _, _)
NormComps(comps, new_comps, initial_slashes) ==
    IF comps = <<>> THEN new_comps
    ELSE LET comp == Head(comps)
             rest == Tail(comps)
         IN  IF comp = <<>> \/ comp = <<".">>
             THEN NormComps(rest, new_comps, initial_slashes)
             ELSE IF \/ comp # <<".", ".">>
                     \/ (initial_slashes = 0 /\ new_comps = <<>>)
                     \/ (new_comps # <<>> /\ new_comps[Len(new_comps)] = <<".", ".">>)
             THEN NormComps(rest, Append(new_comps, comp), initial_slashes)
             ELSE IF new_comps # <<>>
             THEN NormComps(rest, SubSeq(new_comps, 1, Len(new_comps) - 1), initial_slashes)
             ELSE NormComps(rest, new_comps, initial_slashes)

\* os.path.normpath(path)
NormPath(path) ==
    IF path = <<>> THEN <<".">>
    ELSE LET initial_slashes ==
                 IF ~StartsWith(path, <<"/">>) THEN 0
                 ELSE IF StartsWith(path, <<"/", "/">>) /\ ~StartsWith(path, <<"/", "/", "/">>)
                 THEN 2
                 ELSE 1
             joined == Join(NormComps(Split(path), <<>>, initial_slashes))
             result == IF initial_slashes = 2 THEN <<"/", "/">> \o joined
                       ELSE IF initial_slashes = 1 THEN <<"/">> \o joined
                       ELSE joined
         IN  IF result = <<>> THEN <<".">> ELSE result

---------------------------------------------------------------------------
(* Emulator helpers *)

\* Emulator.normalize_member_name
normalize_member_name(name) ==
    IF StartsWith(name, <<".", "/">>) THEN From(name, 2) ELSE name

\* LsPrefix without the separator that closes the prefix
LsPrefixNoSeparator(dir) == Strip(dir)

\* the prefix ls scans for: current_dir.strip('/'), plus '/' unless empty
LsPrefix(dir) ==
    LET prefix == Strip(dir)
    IN  IF prefix # <<>> THEN prefix \o <<"/">> ELSE prefix

\* the loop of ls over self.members[i..], adding to the set contents
RECURSIVE LsScan(_, _, _, _)
LsScan(mems, i, prefix, contents) ==
    IF i > Len(mems) THEN contents
    ELSE LET member_name == normalize_member_name(mems[i].name)
         IN  IF StartsWith(member_name, prefix)
             THEN LET suffix == Split(From(member_name, Len(prefix)))
                  IN  IF suffix[1] # <<>>
                      THEN LsScan(mems, i + 1, prefix, contents \cup {suffix[1]})
                      ELSE LsScan(mems, i + 1, prefix, contents)
             ELSE LsScan(mems, i + 1, prefix, contents)

\* the names ls prints, in print order
LsItems(mems, dir) == Sorted(LsScan(mems, 1, LsPrefix(dir), {}))

\* CdNewPath without the normalization
CdNewPathJoined(dir, path) == PathJoin(dir, path)

\* new_path of cd
CdNewPath(dir, path) == NormPath(PathJoin(dir, path))

\* CdPrefix without the separator that closes the prefix
CdPrefixNoSeparator(new_path) == normalize_member_name(Strip(new_path))

\* the prefix cd looks for among the member names
CdPrefix(new_path) == normalize_member_name(Strip(new_path)) \o <<"/">>

\* the loop of cd finds a member under the prefix
CdFound(mems, new_path) ==
    \E i \in 1..Len(mems) :
        StartsWith(normalize_member_name(mems[i].name), CdPrefix(new_path))

\* member_name of head, wc and chown
LookupName(dir, filename) ==
    normalize_member_name(LStrip(NormPath(PathJoin(dir, filename))))

---------------------------------------------------------------------------
(* File contents: head and wc *)

\* the bytes a file may hold: letters, space, newline and 0xFF, which is
\* no valid UTF-8 byte
Bytes == {"a", "b", "c", " ", "\n", "FF"}

\* str.isspace for the characters of the model
IsSpace(c) == c \in {" ", "\n"}

\* number of iterations of the loop of head
HeadCount == 10

\* f.readline() on the unread rest of a file: through the first newline
ReadLine(rest) ==
    IF \E i \in 1..Len(rest) : rest[i] = "\n"
    THEN LET i == CHOOSE k \in 1..Len(rest) :
                      rest[k] = "\n" /\ \A j \in 1..(k - 1) : rest[j] # "\n"
         IN  SubSeq(rest, 1, i)
    ELSE rest

\* line.decode('utf-8') raises UnicodeDecodeError
DecodeFails(line) == \E i \in 1..Len(line) : line[i] = "FF"

\* decoded_line.rstrip()
RECURSIVE RStrip(_)
RStrip(s) ==
    IF s # <<>> /\ IsSpace(s[Len(s)]) THEN RStrip(SubSeq(s, 1, Len(s) - 1)) ELSE s

MsgHeadEncoding == "head: error reading '{filename}': invalid encoding"
MsgHeadNoFile == "head: cannot open '{filename}' for reading: No such file or directory"
MsgHeadNotRegular == "head: cannot open '{filename}' for reading: Not a regular file"
MsgHeadMissing == "head: missing file operand"
MsgCdMissing == "cd: missing operand"
MsgCdNoDir == "cd: {path}: No such file or directory"
MsgChownMissing == "chown: missing operand"
MsgChownDone == "Changed owner of '{filename}' to '{owner}'"
MsgChownNoFile == "chown: cannot access '{filename}': No such file or directory"
MsgWcMissing == "wc: missing file operand"
MsgWcNoFile == "wc: {filename}: No such file or directory"
MsgWcCounts == "{lines} {words} {bytes} {filename}"
MsgNotFound == "{command}: command not found"

\* the messages that report a failure
ErrorMsgs ==
    {MsgHeadEncoding, MsgHeadNoFile, MsgHeadNotRegular, MsgHeadMissing, MsgCdMissing,
     MsgCdNoDir, MsgChownMissing, MsgChownNoFile, MsgWcMissing, MsgWcNoFile, MsgNotFound}

\* what a command printed: a message template (or ""), the operand the
\* message names, the names (ls) or lines (head) printed before the
\* message, and the three numbers of wc
Printed(msg, arg, items, counts) ==
    [msg |-> msg, arg |-> arg, items |-> items, counts |-> counts]

Nothing == Printed("", <<>>, <<>>, <<>>)

\* the loop of head: n iterations left, rest of the file unread
RECURSIVE HeadLoop(_, _, _, _)
HeadLoop(rest, n, printed, filename) ==
    IF n = 0 THEN Printed("", <<>>, printed, <<>>)
    ELSE LET line == ReadLine(rest)
         IN  IF line = <<>> THEN Printed("", <<>>, printed, <<>>)
             ELSE IF DecodeFails(line)
             THEN Printed(MsgHeadEncoding, filename, printed, <<>>)
             ELSE HeadLoop(From(rest, Len(line)), n - 1, Append(printed, RStrip(line)), filename)

\* f.read().decode('utf-8', errors='replace'): every 0xFF becomes U+FFFD
DecodeReplace(content) ==
    [i \in 1..Len(content) |-> IF content[i] = "FF" THEN "U+FFFD" ELSE content[i]]

\* content.count('\n')
CountNewlines(text) == Cardinality({i \in 1..Len(text) : text[i] = "\n"})

\* len(content.split())
CountWords(text) ==
    Cardinality({i \in 1..Len(text) :
                    ~IsSpace(text[i]) /\ (i = 1 \/ IsSpace(text[i - 1]))})

\* len(content.encode('utf-8')): U+FFFD takes three bytes, the others one
RECURSIVE EncodedLen(_)
EncodedLen(text) ==
    IF text = <<>> THEN 0
    ELSE (IF Head(text) = "U+FFFD" THEN 3 ELSE 1) + EncodedLen(Tail(text))

\* the three numbers wc prints
WcCounts(content) ==
    LET text == DecodeReplace(content)
    IN  <<CountNewlines(text), CountWords(text), EncodedLen(text)>>

\* self.tar.getmember(member_name): the index of the member of that exact
\* name, 0 for KeyError
GetMember(mems, member_name) ==
    IF \E i \in 1..Len(mems) : mems[i].name = member_name
    THEN CHOOSE i \in 1..Len(mems) :
             mems[i].name = member_name /\ \A j \in (i + 1)..Len(mems) : mems[j].name # member_name
    ELSE 0

\* self.tar.extractfile(member) is None
ExtractIsNone(member) == member.type = "dir"

\* HeadOutput with a directory member reported as a missing one
HeadOutputNoFile(mems, dir, filename) ==
    LET i == GetMember(mems, LookupName(dir, filename))
    IN  IF i = 0 THEN Printed(MsgHeadNoFile, filename, <<>>, <<>>)
        ELSE IF ExtractIsNone(mems[i]) THEN Printed(MsgHeadNoFile, filename, <<>>, <<>>)
        ELSE HeadLoop(mems[i].content, HeadCount, <<>>, filename)

\* output of head(filename)
HeadOutput(mems, dir, filename) ==
    LET i == GetMember(mems, LookupName(dir, filename))
    IN  IF i = 0 THEN Printed(MsgHeadNoFile, filename, <<>>, <<>>)
        ELSE IF ExtractIsNone(mems[i]) THEN Printed(MsgHeadNotRegular, filename, <<>>, <<>>)
        ELSE HeadLoop(mems[i].content, HeadCount, <<>>, filename)

\* output of wc(filename)
WcOutput(mems, dir, filename) ==
    LET i == GetMember(mems, LookupName(dir, filename))
    IN  IF i = 0 THEN Printed(MsgWcNoFile, filename, <<>>, <<>>)
        ELSE IF ExtractIsNone(mems[i]) THEN Printed(MsgWcNoFile, filename, <<>>, <<>>)
        ELSE Printed(MsgWcCounts, filename, <<>>, WcCounts(mems[i].content))

\* the member the loop of chown stops at: the first of that exact name, 0 for none
ChownIndex(mems, dir, filename) ==
    LET member_name == LookupName(dir, filename)
    IN  IF \E i \in 1..Len(mems) : mems[i].name = member_name
        THEN CHOOSE i \in 1..Len(mems) :
                 mems[i].name = member_name /\ \A j \in 1..(i - 1) : mems[j].name # member_name
        ELSE 0

---------------------------------------------------------------------------
(* The archives the sessions run on *)

\* line i of a text file: lines differ from their neighbours, one ends in
\* a space before its newline
LineOf(i) ==
    CASE i % 3 = 1 -> <<"a", " ", "b", "\n">>
      [] i % 3 = 2 -> <<"c", "\n">>
      [] OTHER     -> <<"b", " ", "\n">>

\* lines i..n of a text file
RECURSIVE Text(_, _)
Text(i, n) == IF i > n THEN <<>> ELSE LineOf(i) \o Text(i + 1, n)

\* a TarInfo: name, type ("file" for a regular file, "dir" for a
\* directory), size and content, and the owner uname
Member(name, type, content) ==
    [name |-> name, type |-> type, size |-> Len(content), content |-> content,
     uname |-> "root"]

\* names stored without a prefix, as tarfile.addfile stores them: a file
\* longer than ten lines, a file whose second line is no UTF-8, a file of
\* exactly ten lines and the placeholder 'e/' of an empty directory
ArchivePlain ==
    << Member(<<"f">>, "file", Text(1, 12)),
       Member(<<"a", "/", "f">>, "file", <<"a", "b", "\n", "FF", " ", "\n", "c", "\n">>),
       Member(<<"a", "/", "b", "/", "f">>, "file", Text(1, 10)),
       Member(<<"e", "/">>, "file", <<>>) >>

\* a short file without a final newline, a file whose eleventh line is no
\* UTF-8, and an empty file
ArchiveShort ==
    << Member(<<"f">>, "file", <<"a", " ", "b", "\n", "\n", "c", " ", " ">>),
       Member(<<"a", "/", "f">>, "file", Text(1, 10) \o <<"FF", "\n">>),
       Member(<<"b">>, "file", <<>>) >>

\* a directory member and a file of two bytes that are no UTF-8
ArchiveDir ==
    << Member(<<"a">>, "dir", <<>>),
       Member(<<"a", "/", "f">>, "file", <<"FF", "FF">>) >>

\* names stored with the prefix './', as `tar -cf fs.tar .` stores them
ArchiveDotted ==
    << Member(<<".">>, "dir", <<>>),
       Member(<<".", "/", "f">>, "file", Text(1, 2)),
       Member(<<".", "/", "a">>, "dir", <<>>),
       Member(<<".", "/", "a", "/", "f">>, "file", <<>>),
       Member(<<".", "/", "a", "/", "b", "/", "f">>, "file", <<"a", "\n">>) >>

Archives == {ArchivePlain, ArchiveShort, ArchiveDir, ArchiveDotted}

---------------------------------------------------------------------------
(* The lines a session reads *)

\* the segments operands are made of
Segments == {<<>>, <<".">>, <<".", ".">>, <<"a">>, <<"f">>}

\* the operands of at most n segments; an operand is a non-empty token
Paths(n) ==
    {Join(segs) : segs \in UNION {[1..k -> Segments] : k \in 1..n}} \ {<<>>}

\* the operands of cd: every path of MaxSegs segments, and the other
\* directories of the archives
CdOperands ==
    Paths(MaxSegs) \cup {<<"b">>, <<"e">>, <<"a", "/", "b">>}

\* the file operands of head, wc and chown: every path of MaxFileSegs
\* segments, and the other names of the archives
FileOperands ==
    Paths(MaxFileSegs)
        \cup {<<"b">>, <<"e">>, <<"a", "/", "f">>, <<"b", "/", "f">>, <<"/", "f">>,
              <<".", ".", "/", "f">>, <<"/", "a", "/", ".", "/", "f">>}

\* the owners chown is called with
Owners == {"root", "u1"}

\* the operands of the sessions that keep the rows of the log file
LogCdOperands == {<<"a">>}
LogFileOperands == {<<"f">>, <<"b">>}
LogOwners == {"u1"}
LogChownOperands == {<<>>}

---------------------------------------------------------------------------
(* The session *)

\* no cd into a child
NotEntered == [ok |-> FALSE, from |-> <<>>, child |-> <<>>]

\* the user name given on the command line
Username == "user"

\* the header row __init__ writes to the log file
Header == <<"User", "Action">>

\* a line of input: cmd is its first word ("" when it has none), ops are its
\* other words, pad tells whether whitespace surrounds them
Line(pad, cmd, ops) == [any |-> TRUE, pad |-> pad, cmd |-> cmd, ops |-> ops]

\* no line read
NoLine == [any |-> FALSE, pad |-> FALSE, cmd |-> "", ops |-> <<>>]

\* line.strip()
StripLine(line) == [line EXCEPT !.pad = FALSE]

\* the row execute_command writes for a line
Row(line) == <<Username, line>>

\* the state __init__ reaches before it calls run_startup_script, but for
\* the archive and for whether the rows of the log file are kept
Constructed ==
    /\ current_dir = <<"/">>
    /\ phase = "Startup"
    /\ script_found \in BOOLEAN
    /\ log_closed = FALSE
    /\ tar_closed = FALSE
    /\ exit_status = -1
    /\ pc = "read"
    /\ command = ""
    /\ operands = <<>>
    /\ prev_dir = <<"/">>
    /\ prev_members = members
    /\ out = Nothing
    /\ entered = NotEntered
    /\ before = NotEntered
    /\ log = <<Header>>
    /\ command_line = NoLine
    /\ prev_log = <<Header>>
    /\ prev_phase = "Startup"

\* the archives of the sessions that keep the rows of the log file
LogArchives == {ArchivePlain}

\* sessions over every archive, the rows of the log file not kept
Init ==
    /\ members \in Archives
    /\ follow_log = FALSE
    /\ Constructed

\* sessions that keep the rows of the log file
InitLog ==
    /\ members \in LogArchives
    /\ follow_log = TRUE
    /\ Constructed

\* the whitespace around a line: run_startup_script strips its lines before
\* it dispatches them, input() returns the line as typed
Pads(cmd) ==
    IF follow_log /\ phase = "Interactive" /\ cmd \in {"", "ls"} THEN BOOLEAN ELSE {FALSE}

\* a line can be dispatched: by run_startup_script once the script is
\* open, or by shell_loop
CanDispatch ==
    /\ pc = "read"
    /\ \/ phase = "Startup" /\ script_found
       \/ phase = "Interactive"

\* Dispatch with the row written once the command is known
DispatchLogKnown(cmd, ops) ==
    /\ CanDispatch
    /\ follow_log => Len(log) <= MaxLog
    /\ \E pad \in Pads(cmd) :
        /\ command_line' = Line(pad, cmd, ops)
        /\ log' = IF follow_log /\ cmd \in {"ls", "cd", "exit", "head", "chown", "wc"}
                  THEN Append(log, Row(Line(pad, cmd, ops)))
                  ELSE log
    /\ prev_log' = log
    /\ prev_phase' = phase
    /\ UNCHANGED follow_log
    /\ pc' = "done"
    /\ command' = cmd
    /\ operands' = ops
    /\ prev_dir' = current_dir
    /\ prev_members' = members
    /\ before' = entered

\* execute_command writes the row of the line to the log file, then splits
\* the line into args
Dispatch(cmd, ops) ==
    /\ CanDispatch
    /\ follow_log => Len(log) <= MaxLog
    /\ \E pad \in Pads(cmd) :
        /\ command_line' = Line(pad, cmd, ops)
        /\ log' = IF follow_log THEN Append(log, Row(Line(pad, cmd, ops))) ELSE log
    /\ prev_log' = log
    /\ prev_phase' = phase
    /\ UNCHANGED follow_log
    /\ pc' = "done"
    /\ command' = cmd
    /\ operands' = ops
    /\ prev_dir' = current_dir
    /\ prev_members' = members
    /\ before' = entered

Session == <<phase, script_found, log_closed, tar_closed, exit_status>>

\* ls
ExecLs ==
    /\ Dispatch("ls", <<>>)
    /\ out' = Printed("", <<>>, LsItems(members, current_dir), <<>>)
    /\ entered' = NotEntered
    /\ UNCHANGED <<members, current_dir, Session>>

\* CdResult with current_dir assigned before the members are searched
CdResultUnchecked(mems, dir, path) == CdNewPath(dir, path)

\* current_dir after cd(path)
CdResult(mems, dir, path) ==
    LET new_path == CdNewPath(dir, path)
    IN  IF new_path = <<"/">> THEN <<"/">>
        ELSE IF CdFound(mems, new_path) THEN new_path
        ELSE dir

\* cd(path) prints its error
CdFails(mems, dir, path) ==
    LET new_path == CdNewPath(dir, path)
    IN  new_path # <<"/">> /\ ~CdFound(mems, new_path)

\* path is one of the names ls prints in dir
IsChild(mems, dir, path) ==
    \E k \in 1..Len(LsItems(mems, dir)) : LsItems(mems, dir)[k] = path

\* cd <path>
ExecCd ==
    \E path \in IF follow_log THEN LogCdOperands ELSE CdOperands :
        /\ Dispatch("cd", <<path>>)
        /\ current_dir' = CdResult(members, current_dir, path)
        /\ out' = IF CdFails(members, current_dir, path)
                  THEN Printed(MsgCdNoDir, path, <<>>, <<>>)
                  ELSE Nothing
        /\ entered' = IF ~CdFails(members, current_dir, path)
                         /\ IsChild(members, current_dir, path)
                      THEN [ok |-> TRUE, from |-> current_dir, child |-> path]
                      ELSE NotEntered
        /\ UNCHANGED <<members, Session>>

\* ExecCdMissing with the root entered after the message
ExecCdMissingHome ==
    /\ Dispatch("cd", <<>>)
    /\ out' = Printed(MsgCdMissing, <<>>, <<>>, <<>>)
    /\ entered' = NotEntered
    /\ current_dir' = <<"/">>
    /\ UNCHANGED <<members, Session>>

\* cd without operand
ExecCdMissing ==
    /\ Dispatch("cd", <<>>)
    /\ out' = Printed(MsgCdMissing, <<>>, <<>>, <<>>)
    /\ entered' = NotEntered
    /\ UNCHANGED <<members, current_dir, Session>>

\* head <filename>
ExecHead ==
    \E filename \in IF follow_log THEN LogFileOperands ELSE FileOperands :
        /\ Dispatch("head", <<filename>>)
        /\ out' = HeadOutput(members, current_dir, filename)
        /\ entered' = NotEntered
        /\ UNCHANGED <<members, current_dir, Session>>

\* head without operand
ExecHeadMissing ==
    /\ Dispatch("head", <<>>)
    /\ out' = Printed(MsgHeadMissing, <<>>, <<>>, <<>>)
    /\ entered' = NotEntered
    /\ UNCHANGED <<members, current_dir, Session>>

\* wc <filename>
ExecWc ==
    \E filename \in IF follow_log THEN LogFileOperands ELSE FileOperands :
        /\ Dispatch("wc", <<filename>>)
        /\ out' = WcOutput(members, current_dir, filename)
        /\ entered' = NotEntered
        /\ UNCHANGED <<members, current_dir, Session>>

\* wc without operand
ExecWcMissing ==
    /\ Dispatch("wc", <<>>)
    /\ out' = Printed(MsgWcMissing, <<>>, <<>>, <<>>)
    /\ entered' = NotEntered
    /\ UNCHANGED <<members, current_dir, Session>>

\* ChownResult with the owner written to the first member when none matches
ChownResultFirst(mems, dir, owner, filename) ==
    LET i == ChownIndex(mems, dir, filename)
    IN  [mems EXCEPT ![IF i # 0 THEN i ELSE 1].uname = owner]

\* members after chown(owner, filename)
ChownResult(mems, dir, owner, filename) ==
    LET i == ChownIndex(mems, dir, filename)
    IN  IF i # 0 THEN [mems EXCEPT ![i].uname = owner] ELSE mems

\* ExecChown with the owner of every member set
ExecChownAll ==
    \E owner \in IF follow_log THEN LogOwners ELSE Owners,
       filename \in IF follow_log THEN LogFileOperands ELSE FileOperands :
        /\ Dispatch("chown", <<owner, filename>>)
        /\ members' = IF ChownIndex(members, current_dir, filename) # 0
                      THEN [i \in 1..Len(members) |-> [members[i] EXCEPT !.uname = owner]]
                      ELSE members
        /\ out' = IF ChownIndex(members, current_dir, filename) # 0
                  THEN Printed(MsgChownDone, filename, <<>>, <<>>)
                  ELSE Printed(MsgChownNoFile, filename, <<>>, <<>>)
        /\ entered' = NotEntered
        /\ UNCHANGED <<current_dir, Session>>

\* chown <owner> <filename>
ExecChown ==
    \E owner \in IF follow_log THEN LogOwners ELSE Owners,
       filename \in IF follow_log THEN LogFileOperands ELSE FileOperands :
        /\ Dispatch("chown", <<owner, filename>>)
        /\ members' = ChownResult(members, current_dir, owner, filename)
        /\ out' = IF ChownIndex(members, current_dir, filename) # 0
                  THEN Printed(MsgChownDone, filename, <<>>, <<>>)
                  ELSE Printed(MsgChownNoFile, filename, <<>>, <<>>)
        /\ entered' = NotEntered
        /\ UNCHANGED <<current_dir, Session>>

\* chown with fewer than two operands
ExecChownMissing ==
    \E ops \in IF follow_log THEN LogChownOperands ELSE {<<>>, <<"u1">>} :
        /\ Dispatch("chown", ops)
        /\ out' = Printed(MsgChownMissing, <<>>, <<>>, <<>>)
        /\ entered' = NotEntered
        /\ UNCHANGED <<members, current_dir, Session>>

\* a first token that is no command
ExecUnknown ==
    /\ Dispatch("foo", <<>>)
    /\ out' = Printed(MsgNotFound, <<>>, <<>>, <<>>)
    /\ entered' = NotEntered
    /\ UNCHANGED <<members, current_dir, Session>>

\* a blank line typed at the prompt: execute_command returns on empty args
\* (run_startup_script never dispatches a blank line)
ExecBlank ==
    /\ phase = "Interactive"
    /\ Dispatch("", <<>>)
    /\ out' = Nothing
    /\ entered' = NotEntered
    /\ UNCHANGED <<members, current_dir, Session>>

\* exit_shell
exit_shell ==
    /\ log_closed' = TRUE
    /\ tar_closed' = TRUE
    /\ exit_status' = 0
    /\ phase' = "Terminated"
    /\ UNCHANGED script_found

\* ExecExit with the exit of a startup script passed over
ExecExitAtPrompt ==
    /\ Dispatch("exit", <<>>)
    /\ out' = Nothing
    /\ entered' = NotEntered
    /\ IF phase = "Interactive" THEN exit_shell ELSE UNCHANGED Session
    /\ UNCHANGED <<members, current_dir>>

\* exit
ExecExit ==
    /\ Dispatch("exit", <<>>)
    /\ out' = Nothing
    /\ entered' = NotEntered
    /\ exit_shell
    /\ UNCHANGED <<members, current_dir>>

\* NextLine with the loop going on after exit_shell
NextLineAfterExit ==
    /\ pc = "done"
    /\ pc' = "read"
    /\ command' = ""
    /\ operands' = <<>>
    /\ prev_dir' = current_dir
    /\ prev_members' = members
    /\ out' = Nothing
    /\ before' = NotEntered
    /\ command_line' = NoLine
    /\ prev_log' = log
    /\ prev_phase' = phase
    /\ UNCHANGED <<members, current_dir, Session, entered, log, follow_log>>

\* execute_command has returned and the loop of run_startup_script or of
\* shell_loop goes on to read its next line
NextLine ==
    /\ pc = "done"
    /\ phase # "Terminated"
    /\ pc' = "read"
    /\ command' = ""
    /\ operands' = <<>>
    /\ prev_dir' = current_dir
    /\ prev_members' = members
    /\ out' = Nothing
    /\ before' = NotEntered
    /\ command_line' = NoLine
    /\ prev_log' = log
    /\ prev_phase' = phase
    /\ UNCHANGED <<members, current_dir, Session, entered, log, follow_log>>

History == <<command, operands, prev_dir, prev_members, out, entered, before, prev_log>>

\* run_startup_script reads a line that is blank once stripped, and goes on
\* to its next line
SkipBlank ==
    /\ phase = "Startup"
    /\ script_found
    /\ pc = "read"
    /\ command_line' = StripLine(Line(TRUE, "", <<>>))
    /\ UNCHANGED <<members, current_dir, Session, pc, History, log, follow_log, prev_phase>>

\* ScriptMissing with sys.exit(0)
ScriptMissingStatusZero ==
    /\ phase = "Startup"
    /\ ~script_found
    /\ phase' = "Terminated"
    /\ exit_status' = 0
    /\ UNCHANGED <<members, current_dir, script_found, log_closed, tar_closed, pc, History,
                   log, follow_log, command_line, prev_phase>>

\* run_startup_script cannot open the script: sys.exit(1)
ScriptMissing ==
    /\ phase = "Startup"
    /\ ~script_found
    /\ phase' = "Terminated"
    /\ exit_status' = 1
    /\ UNCHANGED <<members, current_dir, script_found, log_closed, tar_closed, pc, History,
                   log, follow_log, command_line, prev_phase>>

\* run_startup_script has read the last line of the script: main calls shell_loop
ScriptEnd ==
    /\ phase = "Startup"
    /\ script_found
    /\ pc = "read"
    /\ phase' = "Interactive"
    /\ command_line' = NoLine
    /\ prev_phase' = "Interactive"
    /\ UNCHANGED <<members, current_dir, script_found, log_closed, tar_closed, exit_status,
                   pc, History, log, follow_log>>

\* input() raises EOFError or KeyboardInterrupt in shell_loop
EndOfInput ==
    /\ phase = "Interactive"
    /\ pc = "read"
    /\ exit_shell
    /\ UNCHANGED <<members, current_dir, pc, History, log, follow_log, command_line,
                   prev_phase>>

Next ==
    \/ ExecLs
    \/ ExecCd
    \/ ExecCdMissing
    \/ ExecHead
    \/ ExecHeadMissing
    \/ ExecWc
    \/ ExecWcMissing
    \/ ExecChown
    \/ ExecChownMissing
    \/ ExecUnknown
    \/ ExecBlank
    \/ ExecExit
    \/ NextLine
    \/ SkipBlank
    \/ ScriptMissing
    \/ ScriptEnd
    \/ EndOfInput

Spec == Init /\ [][Next]_vars

\* the sessions that keep the rows of the log file
SpecLog == InitLog /\ [][Next]_vars

---------------------------------------------------------------------------
(* Vocabulary of the properties *)

\* the stored names of an archive after stripping a leading './'
StrippedNames(mems) == {normalize_member_name(mems[i].name) : i \in 1..Len(mems)}

\* the directory-existence rule: dir is the root, or some stripped name
\* starts with dir, without its leading and trailing separators, and '/'
DirExists(mems, dir) ==
    \/ dir = <<"/">>
    \/ \E n \in StrippedNames(mems) : StartsWith(n, Strip(dir) \o <<"/">>)

\* a path operand resolved against a directory
Resolved(dir, path) == NormPath(PathJoin(dir, path))

\* the entries a file operand names: those whose stripped name is the
\* resolved path without its leading separator
Named(mems, dir, filename) ==
    {i \in 1..Len(mems) :
        normalize_member_name(mems[i].name) = LStrip(Resolved(dir, filename))}

\* the part of s before its first '/'
FirstSegment(s) ==
    IF \E k \in 1..Len(s) : s[k] = "/"
    THEN SubSeq(s, 1, (CHOOSE k \in 1..Len(s) :
                          s[k] = "/" /\ \A j \in 1..(k - 1) : s[j] # "/") - 1)
    ELSE s

\* the children of dir: the non-empty first segments of what follows the
\* prefix of dir in the stripped names that start with it
Children(mems, dir) ==
    LET prefix == IF dir = <<"/">> THEN <<>> ELSE Strip(dir) \o <<"/">>
    IN  {FirstSegment(From(n, Len(prefix))) :
            n \in {m \in StrippedNames(mems) : StartsWith(m, prefix)}} \ {<<>>}

\* the lines of a file: each ends with its newline, but for a last line
\* that has none
FileLines(content) ==
    LET ends == {k \in 1..Len(content) : content[k] = "\n" \/ k = Len(content)}
        start(k) == IF \E j \in ends : j < k
                    THEN (CHOOSE j \in ends : j < k /\ \A h \in ends : h < k => h <= j) + 1
                    ELSE 1
        nth(n) == CHOOSE k \in ends : Cardinality({j \in ends : j <= k}) = n
    IN  [n \in 1..Cardinality(ends) |-> SubSeq(content, start(nth(n)), nth(n))]

\* the content holds a byte that is no UTF-8
BadContent(content) == \E k \in 1..Len(content) : content[k] = "FF"

Min(a, b) == IF a <= b THEN a ELSE b

\* the line just dispatched was this command with n operands
Ran(cmd, n) == pc = "done" /\ command = cmd /\ Len(operands) = n

---------------------------------------------------------------------------
(* Properties *)

\* C1: in every reachable state current_dir is the root, or a path P such
\* that some entry's name, stripped of a leading './', starts with P
\* (leading and trailing separators stripped) followed by '/'.
C1_CurrentDirExists == DirExists(members, current_dir)

\* C1 witness: a cd has moved the session into a directory two levels down.
C1_Witness ==
    /\ Ran("cd", 1)
    /\ current_dir # prev_dir
    /\ Len(Split(Strip(current_dir))) = 2

\* C2 as stated: whenever no entry's name starts with the operand P and
\* '/', cd P reports the error and current_dir is unchanged.
C2_Original ==
    (/\ Ran("cd", 1)
     /\ ~\E n \in StrippedNames(prev_members) : StartsWith(n, operands[1] \o <<"/">>))
    => (out.msg = MsgCdNoDir /\ out.arg = operands[1] /\ current_dir = prev_dir)

\* C2 amended: whenever the path R that the operand P resolves to against
\* current_dir is not the root and no entry's stripped name starts with R
\* (separators stripped) and '/', cd P reports "cd: P: No such file or
\* directory" and current_dir is unchanged.
C2_UnknownDirFails ==
    (/\ Ran("cd", 1)
     /\ Resolved(prev_dir, operands[1]) # <<"/">>
     /\ ~\E n \in StrippedNames(prev_members) :
            StartsWith(n, Strip(Resolved(prev_dir, operands[1])) \o <<"/">>))
    => (out.msg = MsgCdNoDir /\ out.arg = operands[1] /\ current_dir = prev_dir)

\* C2 witness: a cd from below the root to a path that names no directory.
C2_Witness ==
    /\ Ran("cd", 1)
    /\ prev_dir # <<"/">>
    /\ Resolved(prev_dir, operands[1]) # <<"/">>
    /\ ~DirExists(prev_members, Resolved(prev_dir, operands[1]))
    /\ out.msg = MsgCdNoDir

\* C3: ls prints exactly the children of current_dir, in strictly
\* increasing order: none missing, none twice, none added.
C3_LsExact ==
    Ran("ls", 0) =>
        /\ {out.items[k] : k \in 1..Len(out.items)} = Children(prev_members, prev_dir)
        /\ \A k \in 1..(Len(out.items) - 1) : StrLess(out.items[k], out.items[k + 1])
        /\ out.msg = ""

\* C3 witness: ls below the root printed two names, one of them the first
\* segment of a longer name.
C3_Witness ==
    /\ Ran("ls", 0)
    /\ prev_dir # <<"/">>
    /\ Len(out.items) = 2
    /\ \E n \in StrippedNames(members) :
           StartsWith(n, Strip(prev_dir) \o <<"/">> \o out.items[1] \o <<"/">>)

\* C4: cd into a child C of D that succeeds, followed by cd .., leaves
\* current_dir equal to D.
C4_ChildThenParent ==
    (Ran("cd", 1) /\ operands[1] = <<".", ".">> /\ before.ok)
    => current_dir = before.from

\* C4 witness: cd .. right after a cd into a child of a directory below the root.
C4_Witness ==
    /\ Ran("cd", 1)
    /\ operands[1] = <<".", ".">>
    /\ before.ok
    /\ before.from # <<"/">>
    /\ prev_dir # before.from

\* C5: chown on an existing entry sets that entry's owner to the owner
\* given, whatever owner earlier chown commands left there (last write wins).
C5_ChownSetsOwner ==
    Ran("chown", 2) =>
        \A i \in Named(prev_members, prev_dir, operands[2]) :
            members[i].uname = operands[1]

\* C6: chown whose filename resolves to no entry reports "cannot access
\* '<filename>': No such file or directory" and leaves every owner unchanged.
C6_ChownMissingEntry ==
    (Ran("chown", 2) /\ Named(prev_members, prev_dir, operands[2]) = {})
    => /\ out.msg = MsgChownNoFile
       /\ out.arg = operands[2]
       /\ Len(members) = Len(prev_members)
       /\ \A i \in 1..Len(members) : members[i].uname = prev_members[i].uname

\* C6 witness: a chown that names no entry, after an earlier chown changed
\* an owner.
C6_Witness ==
    /\ Ran("chown", 2)
    /\ Named(prev_members, prev_dir, operands[2]) = {}
    /\ operands[1] = "u1"
    /\ \E i \in 1..Len(members) : members[i].uname = "u1"
    /\ \E i \in 1..Len(members) : members[i].uname = "root"

\* an archive with every leading './' stripped from the stored names
StoredStripped(mems) ==
    [i \in 1..Len(mems) |-> [mems[i] EXCEPT !.name = normalize_member_name(@)]]

\* C7: for an entry stored as './X', head X, wc X and chown <owner> X, X
\* being a name ls shows, do exactly what they would do if the entry were
\* stored as 'X'.
C7_StoredPrefixIgnored ==
    /\ (Ran("head", 1) /\ IsChild(prev_members, prev_dir, operands[1]))
       => out = HeadOutput(StoredStripped(prev_members), prev_dir, operands[1])
    /\ (Ran("wc", 1) /\ IsChild(prev_members, prev_dir, operands[1]))
       => out = WcOutput(StoredStripped(prev_members), prev_dir, operands[1])
    /\ (Ran("chown", 2) /\ IsChild(prev_members, prev_dir, operands[2]))
       => StoredStripped(members) =
              ChownResult(StoredStripped(prev_members), prev_dir, operands[1], operands[2])

\* C8: head on an existing file whose content decodes prints exactly
\* min(n, 10) lines, n the number of lines of the file, and they are the
\* first lines of the file in file order (shown without the white space
\* that ends them).
C8_HeadFirstLines ==
    Ran("head", 1) =>
        \A i \in Named(prev_members, prev_dir, operands[1]) :
            (prev_members[i].type = "file" /\ ~BadContent(prev_members[i].content))
            => LET lines == FileLines(prev_members[i].content)
               IN  /\ out.msg = ""
                   /\ Len(out.items) = Min(Len(lines), 10)
                   /\ \A k \in 1..Len(out.items) : out.items[k] = RStrip(lines[k])

\* C9: head on a file whose content fails UTF-8 decoding reports "invalid
\* encoding" and prints no line of the file, whichever line holds the
\* invalid bytes.
C9_HeadBadContent ==
    Ran("head", 1) =>
        \A i \in Named(prev_members, prev_dir, operands[1]) :
            (prev_members[i].type = "file" /\ BadContent(prev_members[i].content))
            => (out.msg = MsgHeadEncoding /\ out.items = <<>>)

\* the number of maximal runs of characters that are no white space
Tokens(text) ==
    Cardinality({k \in 1..Len(text) :
                    ~IsSpace(text[k]) /\ (k = Len(text) \/ IsSpace(text[k + 1]))})

\* C10: wc on an existing file entry reports no error, whatever the
\* content: it prints the number of newline characters, the number of
\* white-space delimited tokens, the byte count and the filename, and
\* prints 0 0 0 for an empty file.
C10_WcCounts ==
    Ran("wc", 1) =>
        \A i \in Named(prev_members, prev_dir, operands[1]) :
            prev_members[i].type = "file"
            => LET content == prev_members[i].content
               IN  /\ out.msg = MsgWcCounts
                   /\ out.arg = operands[1]
                   /\ out.counts[1] = Cardinality({k \in 1..Len(content) : content[k] = "\n"})
                   /\ out.counts[2] = Tokens(content)
                   /\ content = <<>> => out.counts = <<0, 0, 0>>

---------------------------------------------------------------------------
(* What head, wc and chown do with the entries whose stored name is the    *)
(* name they look up                                                       *)

\* the entries stored under the very name a file operand resolves to
Stored(mems, dir, filename) ==
    {i \in 1..Len(mems) : mems[i].name = LStrip(Resolved(dir, filename))}

\* chown sets the owner of such an entry, over the owner an earlier chown left
ChownStoredLastWriteWins ==
    Ran("chown", 2) =>
        \A i \in Stored(prev_members, prev_dir, operands[2]) :
            /\ members[i].uname = operands[1]
            /\ out.msg = MsgChownDone

\* head prints the first min(n, 10) lines of such a file when it decodes
HeadStoredFirstLines ==
    Ran("head", 1) =>
        \A i \in Stored(prev_members, prev_dir, operands[1]) :
            (prev_members[i].type = "file" /\ ~BadContent(prev_members[i].content))
            => LET lines == FileLines(prev_members[i].content)
               IN  /\ out.msg = ""
                   /\ Len(out.items) = Min(Len(lines), 10)
                   /\ \A k \in 1..Len(out.items) : out.items[k] = RStrip(lines[k])

\* head prints the lines before the first line that does not decode, when
\* that line is among the first ten, and then the error; ten lines and no
\* error otherwise
HeadStoredBadContent ==
    Ran("head", 1) =>
        \A i \in Stored(prev_members, prev_dir, operands[1]) :
            (prev_members[i].type = "file" /\ BadContent(prev_members[i].content))
            => LET lines == FileLines(prev_members[i].content)
                   bad == CHOOSE k \in 1..Len(lines) :
                              BadContent(lines[k]) /\ \A j \in 1..(k - 1) : ~BadContent(lines[j])
               IN  IF bad <= 10
                   THEN /\ out.msg = MsgHeadEncoding
                        /\ Len(out.items) = bad - 1
                        /\ \A k \in 1..(bad - 1) : out.items[k] = RStrip(lines[k])
                   ELSE /\ out.msg = ""
                        /\ Len(out.items) = 10

\* wc counts newlines and tokens of such a file, 0 0 0 when it is empty
WcStoredCounts ==
    Ran("wc", 1) =>
        \A i \in Stored(prev_members, prev_dir, operands[1]) :
            prev_members[i].type = "file"
            => LET content == prev_members[i].content
               IN  /\ out.msg = MsgWcCounts
                   /\ out.counts[1] = Cardinality({k \in 1..Len(content) : content[k] = "\n"})
                   /\ out.counts[2] = Tokens(content)
                   /\ content = <<>> => out.counts = <<0, 0, 0>>

---------------------------------------------------------------------------
(* Errors, canonical paths and frame conditions *)

\* the owners of the entries, in archive order
OwnersOf(mems) == [i \in 1..Len(mems) |-> mems[i].uname]

\* C16: a command that ends in a non-fatal error (missing operand, unknown
\* command, no such file or directory, invalid encoding) leaves current_dir
\* and every owner unchanged, and the loop it occurred in goes on to its
\* next line
C16_ErrorIsLocal ==
    (pc = "done" /\ out.msg \in ErrorMsgs)
    => /\ current_dir = prev_dir
       /\ OwnersOf(members) = OwnersOf(prev_members)
       /\ phase = prev_phase
       /\ phase \in {"Startup", "Interactive"}
       /\ exit_status = -1
       /\ ~log_closed
       /\ ~tar_closed
       /\ ENABLED NextLine

\* an invalid-encoding error of the startup script, in a directory other
\* than the root, after an owner was changed
C16_Witness ==
    /\ pc = "done"
    /\ phase = "Startup"
    /\ out.msg = MsgHeadEncoding
    /\ current_dir # <<"/">>
    /\ \E i \in 1..Len(members) : members[i].uname = "u1"

\* a canonical absolute path: exactly one leading '/', no '.', '..' or empty
\* segment, no trailing separator unless it is the root
Canonical(p) ==
    \/ p = <<"/">>
    \/ /\ Len(p) > 1
       /\ p[1] = "/"
       /\ LET segs == Split(From(p, 1))
          IN  \A k \in 1..Len(segs) : segs[k] \notin {<<>>, <<".">>, <<".", ".">>}

\* the canonical absolute path p denotes: empty and '.' segments dropped,
\* '..' dropping the segment before it, and nothing at the root
Canon(p) == <<"/">> \o Join(NormComps(Split(p), <<>>, 1))

\* p starts with exactly two separators
DoubleSlash(p) == StartsWith(p, <<"/", "/">>) /\ ~StartsWith(p, <<"/", "/", "/">>)

\* C17: after any cd, current_dir is a canonical absolute path, and an
\* operand that resolves to the root succeeds and sets current_dir to '/'
C17_CanonicalAfterCd ==
    Ran("cd", 1) =>
        /\ Canonical(current_dir)
        /\ Canon(PathJoin(prev_dir, operands[1])) = <<"/">>
           => current_dir = <<"/">> /\ out = Nothing

\* the same holds of every cd whose operand does not start with exactly two
\* separators, from a canonical current_dir
CdCanonicalUnlessDoubleSlash ==
    (Ran("cd", 1) /\ Canonical(prev_dir) /\ ~DoubleSlash(operands[1])) =>
        /\ Canonical(current_dir)
        /\ Canon(PathJoin(prev_dir, operands[1])) = <<"/">>
           => current_dir = <<"/">> /\ out = Nothing

\* a successful cd with a '..' segment in its operand
CdCanonicalWitness ==
    /\ Ran("cd", 1)
    /\ Canonical(prev_dir)
    /\ operands[1] = <<"a", "/", ".", ".", "/", "a">>
    /\ current_dir = <<"/", "a">>

\* C18 as stated: head on a filename that resolves to no entry, or to an
\* entry that is only a directory, reports "cannot open '<filename>' for
\* reading: No such file or directory" and prints no file lines
C18_Original ==
    (/\ Ran("head", 1)
     /\ \A i \in Named(prev_members, prev_dir, operands[1]) : prev_members[i].type = "dir")
    => out = Printed(MsgHeadNoFile, operands[1], <<>>, <<>>)

\* C18: head on a filename that resolves to no entry reports "cannot open
\* '<filename>' for reading: No such file or directory"; head on a filename
\* whose resolved name is the stored name of a directory entry reports
\* "cannot open '<filename>' for reading: Not a regular file"; neither prints
\* a file line
C18_HeadNoEntry ==
    Ran("head", 1) =>
        /\ Named(prev_members, prev_dir, operands[1]) = {}
           => out = Printed(MsgHeadNoFile, operands[1], <<>>, <<>>)
        /\ (/\ Stored(prev_members, prev_dir, operands[1]) # {}
            /\ \A i \in Stored(prev_members, prev_dir, operands[1]) :
                   prev_members[i].type = "dir")
           => out = Printed(MsgHeadNotRegular, operands[1], <<>>, <<>>)

\* head of a directory entry, named from below it
C18_Witness ==
    /\ Ran("head", 1)
    /\ prev_dir # <<"/">>
    /\ Stored(prev_members, prev_dir, operands[1]) # {}
    /\ \A i \in Stored(prev_members, prev_dir, operands[1]) : prev_members[i].type = "dir"
    /\ out.msg = MsgHeadNotRegular

\* head of a name that no entry has, from below the root
HeadNoEntryWitness ==
    /\ Ran("head", 1)
    /\ prev_dir # <<"/">>
    /\ Named(prev_members, prev_dir, operands[1]) = {}
    /\ out.msg = MsgHeadNoFile

\* C19: no command changes the entries or any entry's name, size or
\* content; ls, cd, head and wc leave every owner unchanged; a successful
\* chown changes the owner of the one entry it names and of no other; ls,
\* head, wc and chown leave current_dir unchanged
C19_Frame ==
    pc = "done" =>
        /\ Len(members) = Len(prev_members)
        /\ \A i \in 1..Len(members) :
               /\ members[i].name = prev_members[i].name
               /\ members[i].type = prev_members[i].type
               /\ members[i].size = prev_members[i].size
               /\ members[i].content = prev_members[i].content
        /\ command \in {"ls", "cd", "head", "wc"} => OwnersOf(members) = OwnersOf(prev_members)
        /\ (command = "chown" /\ out.msg = MsgChownDone)
           => \E i \in Named(prev_members, prev_dir, operands[2]) :
                  members = [prev_members EXCEPT ![i].uname = operands[1]]
        /\ command \in {"ls", "head", "wc", "chown"} => current_dir = prev_dir

\* a successful chown below the root that changes an owner, while another
\* entry has an owner that an earlier chown set
C19_Witness ==
    /\ Ran("chown", 2)
    /\ out.msg = MsgChownDone
    /\ prev_dir # <<"/">>
    /\ \E i, j \in 1..Len(members) :
           /\ i # j
           /\ prev_members[i].uname = "root"
           /\ members[i].uname = "u1"
           /\ prev_members[j].uname = "u1"
           /\ members[j].uname = "u1"

---------------------------------------------------------------------------
(* The log and the phases of the session *)

\* a line is given to execute_command in this step
Dispatched == pc = "read" /\ pc' = "done"

\* C11: the log holds the header row followed by one row (username, raw
\* line) per dispatched line, in dispatch order: the log starts as the
\* header row, every step that dispatches a line appends the row of that
\* line, whatever the line, and no other step changes the log
C11_LogRows ==
    /\ log = <<Header>>
    /\ [][IF Dispatched
          THEN log' = Append(log, <<Username, command_line'>>)
          ELSE log' = log]_vars

\* three lines that fail validation, each with its row: a missing operand,
\* an unknown command and a missing file
C11_Witness ==
    /\ Ran("head", 1)
    /\ out.msg = MsgHeadNoFile
    /\ Len(log) = 4
    /\ log[2] = <<Username, Line(FALSE, "cd", <<>>)>>
    /\ log[3] = <<Username, Line(FALSE, "foo", <<>>)>>
    /\ log[4] = <<Username, Line(FALSE, "head", <<<<"b">>>>)>>

\* C12: a blank line (empty or whitespace only) is never dispatched and adds
\* no row to the log, whether the startup script or the prompt gives it
C12_BlankIgnored ==
    /\ pc = "done" => command_line.cmd # ""
    /\ \A k \in 2..Len(log) : log[k][2].cmd # ""

\* a blank line of the startup script is not dispatched and adds no row
StartupBlankSkipped ==
    /\ (phase = "Startup" /\ command_line.any /\ command_line.cmd = "")
       => pc = "read" /\ log = prev_log
    /\ [][(phase' = "Startup" /\ command_line'.any /\ command_line'.cmd = "")
          => log' = log /\ pc' = pc]_vars

\* a blank line of the startup script was read after a line was dispatched
StartupBlankWitness ==
    /\ phase = "Startup"
    /\ command_line = Line(FALSE, "", <<>>)
    /\ Len(log) = 2

\* C13: on every path by which the session terminates (exit command, end of
\* input, interrupt, missing startup script), the log handle and the archive
\* handle are closed when the process ends
C13_HandlesClosed ==
    phase = "Terminated" => log_closed /\ tar_closed

\* the handles are closed on the paths that end in exit_shell
HandlesClosedByExitShell ==
    (phase = "Terminated" /\ script_found) => log_closed /\ tar_closed

\* the session ended at the prompt, by end of input or an interrupt
EndOfInputWitness ==
    /\ phase = "Terminated"
    /\ pc = "read"
    /\ script_found
    /\ Len(log) = 3

\* the process has ended by the exit command
EndedByExit == phase = "Terminated" /\ pc = "done" /\ command = "exit"

\* the process has ended by end of input or an interrupt at the prompt
EndedAtPrompt == phase = "Terminated" /\ pc = "read" /\ script_found

\* the process has ended because the startup script is missing
EndedByMissingScript == phase = "Terminated" /\ ~script_found

\* C14: the process ends with status 0 when the exit command, end of input
\* or an interrupt ends it, and with a non-zero status when the startup
\* script is missing; in that case no command is dispatched and the
\* Interactive phase is never entered
C14_ExitStatus ==
    /\ exit_status # -1 <=> phase = "Terminated"
    /\ phase = "Terminated" => EndedByExit \/ EndedAtPrompt \/ EndedByMissingScript
    /\ EndedByExit \/ EndedAtPrompt => exit_status = 0
    /\ EndedByMissingScript => exit_status # 0
    /\ ~script_found
       => /\ phase # "Interactive"
          /\ pc = "read"
          /\ command_line = NoLine
          /\ log = <<Header>>
          /\ ~ENABLED (ExecLs \/ ExecCd \/ ExecCdMissing \/ ExecHead \/ ExecHeadMissing
                       \/ ExecWc \/ ExecWcMissing \/ ExecChown \/ ExecChownMissing
                       \/ ExecUnknown \/ ExecBlank \/ ExecExit \/ SkipBlank \/ ScriptEnd)

\* the process ended with status 1 on a missing startup script
C14_Witness ==
    /\ EndedByMissingScript
    /\ exit_status = 1
    /\ log = <<Header>>

\* the process ended with status 0 at the prompt, after an error
ExitAtPromptWitness ==
    /\ EndedByExit
    /\ prev_phase = "Interactive"
    /\ exit_status = 0
    /\ Len(log) = 3
    /\ log[2][2].cmd = "foo"

\* C15: the phase only moves forward through Startup, Interactive,
\* Terminated; a line is dispatched in the phase that read it, logged and
\* fully executed in one step, and the next line is read only after that
\* step; once Terminated nothing is dispatched or logged
C15_PhaseOrder ==
    /\ phase = "Startup"
    /\ [][/\ phase # "Terminated"
          /\ phase' # phase
             => <<phase, phase'>> \in {<<"Startup", "Interactive">>,
                                       <<"Startup", "Terminated">>,
                                       <<"Interactive", "Terminated">>}
          /\ Dispatched
             => /\ log' = Append(log, <<Username, command_line'>>)
                /\ phase' \in {phase, "Terminated"}
                /\ phase' = "Terminated" => command' = "exit"
          /\ pc = "done"
             => /\ pc' = "read"
                /\ phase' = phase
                /\ log' = log
                /\ members' = members
                /\ current_dir' = current_dir]_vars

\* a session of three lines that ended by exit at the prompt, its second
\* line typed there with whitespace around it
C15_Witness ==
    /\ EndedByExit
    /\ prev_phase = "Interactive"
    /\ Len(log) = 4
    /\ log[3][2].pad
    /\ ~log[2][2].pad

\* C20: an exit line in the startup script terminates the session at that
\* line: its row is the last row of the log, both handles are closed, the
\* status is 0, and nothing follows: no later line is dispatched or logged
\* and the Interactive phase is not entered
C20_ExitInScript ==
    (pc = "done" /\ command = "exit" /\ prev_phase = "Startup")
    => /\ phase = "Terminated"
       /\ log = Append(prev_log, <<Username, Line(FALSE, "exit", <<>>)>>)
       /\ log[Len(log)] = <<Username, Line(FALSE, "exit", <<>>)>>
       /\ log_closed
       /\ tar_closed
       /\ exit_status = 0
       /\ ~ENABLED Next

\* the startup script's second line is exit
C20_Witness ==
    /\ pc = "done"
    /\ command = "exit"
    /\ prev_phase = "Startup"
    /\ phase = "Terminated"
    /\ Len(log) = 3
    /\ log[2][2].cmd = "cd"
    /\ current_dir = <<"/", "a">>

====
